---- MODULE Spec2Model ----
\* Mortgage rate comparison platform: the lender / rate catalog handlers, the
\* quote engine (getMortgageQuotes with its amortization helpers), the listing
\* queries, the quote request table, and the client page that asks for quotes.
\*
\* Specifications: Spec (catalog writes and quotes, one call at a time),
\* SpecReads (catalog writes and the listing queries), SpecFaults (a database
\* that becomes unreachable), SpecClient (the page and its requests),
\* SpecClientLive (the page with the continuations of its promises run),
\* SpecConcurrent (invocations of getMortgageQuotes split at their await),
\* SpecWrites (the catalog edited while time passes), SpecInterleavedWrites
\* (the update handlers split at their awaits), SpecRequests (quote requests
\* stored and listed) and SpecAmortization (the amortization helpers on small
\* loans).  Timestamps are readings of a clock in milliseconds.
\*
\* Units.  Currency amounts are whole dollars unless a name says cents;
\* percentages with two decimals (min_down_payment_percent, points, the two
\* derived ratios) are integers in hundredths of a percent; rates with three
\* decimals (interest_rate, apr) are integers in thousandths of a percent.
\* A nullable column is a sequence: <<>> is NULL, <<v>> is the value v.
EXTENDS Integers, Sequences, FiniteSets, TLC

\* ------------------------------------------------------------------------
\* Arithmetic on numbers wider than 32-bit integers.  A Big is a
\* little-endian sequence of limbs in 0..Base-1; a Fix is a Big read with
\* FracLimbs limbs after the point (12 decimal digits), which stands for the
\* double-precision values of the amortization formula.
\* ------------------------------------------------------------------------
Base == 10000

FracLimbs == 3

Max(a, b) == IF a >= b THEN a ELSE b

Limb(a, i) == IF i <= Len(a) THEN a[i] ELSE 0

RECURSIVE Carry(_, _, _)
\* Propagates carries through the raw limb sums s from position i on.
Carry(s, i, c) ==
    IF i > Len(s)
    THEN IF c = 0 THEN <<>> ELSE <<c % Base>> \o Carry(s, i, c \div Base)
    ELSE <<(s[i] + c) % Base>> \o Carry(s, i + 1, (s[i] + c) \div Base)

RECURSIVE Trim(_)
\* Drops leading (most significant) zero limbs.
Trim(a) == IF Len(a) > 0 /\ a[Len(a)] = 0 THEN Trim(SubSeq(a, 1, Len(a) - 1)) ELSE a

BigFromInt(n) == Trim(Carry(<<n>>, 1, 0))

RECURSIVE SumProd(_, _, _, _)
\* Sum of a[i] * b[k + 1 - i] for i in lo..k: one column of the schoolbook product.
SumProd(a, b, k, i) ==
    IF i > k \/ i > Len(a) THEN 0
    ELSE (IF k + 1 - i <= Len(b) THEN a[i] * b[k + 1 - i] ELSE 0) + SumProd(a, b, k, i + 1)

BigMul(a, b) ==
    IF Len(a) = 0 \/ Len(b) = 0 THEN <<>>
    ELSE Trim(Carry([k \in 1..(Len(a) + Len(b) - 1) |-> SumProd(a, b, k, 1)], 1, 0))

BigAdd(a, b) ==
    Trim(Carry([k \in 1..Max(Len(a), Len(b)) |-> Limb(a, k) + Limb(b, k)], 1, 0))

RECURSIVE BigLeqFrom(_, _, _)
BigLeqFrom(a, b, i) ==
    IF i = 0 THEN TRUE
    ELSE IF Limb(a, i) # Limb(b, i) THEN Limb(a, i) < Limb(b, i)
    ELSE BigLeqFrom(a, b, i - 1)

\* a <= b
BigLeq(a, b) == BigLeqFrom(a, b, Max(Len(a), Len(b)))

RECURSIVE Borrow(_, _, _, _)
Borrow(a, b, i, c) ==
    IF i > Len(a) THEN <<>>
    ELSE LET d == a[i] - Limb(b, i) - c
         IN  <<IF d < 0 THEN d + Base ELSE d>> \o Borrow(a, b, i + 1, IF d < 0 THEN 1 ELSE 0)

\* a - b, for b <= a
BigSub(a, b) == Trim(Borrow(a, b, 1, 0))

RECURSIVE DivLimbs(_, _, _, _)
\* Long division of a by a small divisor d, from the top limb i down.
DivLimbs(a, d, i, rem) ==
    IF i = 0 THEN <<>>
    ELSE LET cur == rem * Base + a[i]
         IN  DivLimbs(a, d, i - 1, cur % d) \o <<cur \div d>>

\* floor(a / d) for a divisor with d * Base inside the integer range
BigDivSmall(a, d) == Trim(DivLimbs(a, d, Len(a), 0))

RECURSIVE QuotientBetween(_, _, _, _)
\* The q in lo..hi-1 with q * den <= num < (q + 1) * den, by bisection.
QuotientBetween(num, den, lo, hi) ==
    IF hi - lo <= 1 THEN lo
    ELSE LET mid == lo + (hi - lo) \div 2
         IN  IF BigLeq(BigMul(den, BigFromInt(mid)), num)
             THEN QuotientBetween(num, den, mid, hi)
             ELSE QuotientBetween(num, den, lo, mid)

MaxQuotient == 1073741824

\* floor(num / den), for a quotient below MaxQuotient
BigDiv(num, den) == QuotientBetween(num, den, 0, MaxQuotient)

\* One, as a Fix
FixOne == [k \in 1..(FracLimbs + 1) |-> IF k = FracLimbs + 1 THEN 1 ELSE 0]

\* Product of two Fix values, truncated to FracLimbs limbs after the point.
FixMul(a, b) ==
    LET p == BigMul(a, b)
    IN  IF Len(p) <= FracLimbs THEN <<>> ELSE SubSeq(p, FracLimbs + 1, Len(p))

RECURSIVE FixPow(_, _)
\* Math.pow(a, n) for a whole exponent n >= 0, by repeated squaring.
FixPow(a, n) ==
    IF n = 0 THEN FixOne
    ELSE LET h == FixPow(a, n \div 2)
             sq == FixMul(h, h)
         IN  IF n % 2 = 1 THEN FixMul(sq, a) ELSE sq

RECURSIVE GCD(_, _)
GCD(a, b) == IF b = 0 THEN a ELSE GCD(b, a % b)

\* ------------------------------------------------------------------------
\* Amortization helpers of the quote engine.
\* ------------------------------------------------------------------------

\* An amount of cents that need not be whole: num / den cents, in lowest terms.
Cents(num, den) == LET g == GCD(num, den) IN [num |-> num \div g, den |-> den \div g]

\* monthlyRate = interestRate / 100 / 12 as a Fix; interestRate in thousandths
\* of a percent, so the rate is interestRate / 1200000.
MonthlyRate(interestRate) ==
    BigDivSmall(BigDivSmall(BigMul(BigFromInt(interestRate), FixOne), 1200), 1000)

\* calculateMonthlyPayment with the zero-rate branch rounded to whole cents
\* like the other branch.
PaymentRoundedAtZeroRate(loanAmount, interestRate, loanTermYears) ==
    LET monthlyRate == MonthlyRate(interestRate)
        numberOfPayments == loanTermYears * 12
    IN  IF monthlyRate = <<>>
        THEN Cents((2 * loanAmount * 100 + numberOfPayments) \div (2 * numberOfPayments), 1)
        ELSE LET pow == FixPow(BigAdd(FixOne, monthlyRate), numberOfPayments)
                 num == BigMul(BigFromInt(loanAmount * 100), FixMul(monthlyRate, pow))
                 den == BigSub(pow, FixOne)
                 rounded == BigDiv(BigAdd(BigMul(num, <<2>>), den), BigMul(den, <<2>>))
             IN  Cents(rounded, 1)

\* calculateMonthlyPayment with the years of the term taken as the number of
\* payments.
PaymentWithYearlyPeriods(loanAmount, interestRate, loanTermYears) ==
    LET monthlyRate == MonthlyRate(interestRate)
        numberOfPayments == loanTermYears
    IN  IF monthlyRate = <<>>
        THEN Cents(loanAmount * 100, loanTermYears * 12)
        ELSE LET pow == FixPow(BigAdd(FixOne, monthlyRate), numberOfPayments)
                 num == BigMul(BigFromInt(loanAmount * 100), FixMul(monthlyRate, pow))
                 den == BigSub(pow, FixOne)
                 rounded == BigDiv(BigAdd(BigMul(num, <<2>>), den), BigMul(den, <<2>>))
             IN  Cents(rounded, 1)

\* calculateMonthlyPayment: the payment in cents, as a Cents value.
calculateMonthlyPayment(loanAmount, interestRate, loanTermYears) ==
    LET monthlyRate == MonthlyRate(interestRate)
        numberOfPayments == loanTermYears * 12
    IN  IF monthlyRate = <<>>
        THEN Cents(loanAmount * 100, numberOfPayments)
        ELSE LET pow == FixPow(BigAdd(FixOne, monthlyRate), numberOfPayments)
                 \* monthlyPayment * 100 = num / den
                 num == BigMul(BigFromInt(loanAmount * 100), FixMul(monthlyRate, pow))
                 den == BigSub(pow, FixOne)
                 \* Math.round(x) = floor(x + 1/2)
                 rounded == BigDiv(BigAdd(BigMul(num, <<2>>), den), BigMul(den, <<2>>))
             IN  Cents(rounded, 1)

\* calculateTotalInterest with totalPayments taken over the years of the term
\* instead of its months.
TotalInterestOverYears(loanAmount, interestRate, loanTermYears) ==
    LET monthlyPayment == calculateMonthlyPayment(loanAmount, interestRate, loanTermYears)
        num == monthlyPayment.num * loanTermYears - loanAmount * 100 * monthlyPayment.den
    IN  (2 * num + monthlyPayment.den) \div (2 * monthlyPayment.den)

\* calculateTotalInterest: Math.round((totalPayments - loanAmount) * 100) / 100,
\* in whole cents.
calculateTotalInterest(loanAmount, interestRate, loanTermYears) ==
    LET monthlyPayment == calculateMonthlyPayment(loanAmount, interestRate, loanTermYears)
        \* (totalPayments - loanAmount) * 100 = num / monthlyPayment.den
        num == monthlyPayment.num * loanTermYears * 12 - loanAmount * 100 * monthlyPayment.den
    IN  (2 * num + monthlyPayment.den) \div (2 * monthlyPayment.den)

\* Number.POSITIVE_INFINITY, the quotient of a positive number by zero; it
\* compares above every finite value.
Infinity == 2147483647

\* (a / v) * 100 before rounding, in hundredths of a percent: the floor of the
\* value, and whether its fraction is at least one half.
PercentOf(a, v) ==
    IF v = 0 THEN [floor |-> Infinity, half |-> FALSE]
    ELSE LET q1 == (a * 100) \div v
             r1 == (a * 100) % v
             q2 == (r1 * 100) \div v
             r2 == (r1 * 100) % v
         IN  [floor |-> q1 * 100 + q2, half |-> 2 * r2 >= v]

\* Truncation in place of Math.round.
Truncate2(x) == x.floor

\* Math.round(x * 100) / 100, in hundredths
Round2(x) == IF x.half THEN x.floor + 1 ELSE x.floor

\* parseInt of a loan_term enum value
ParseInt(term) ==
    CASE term = "15" -> 15 [] term = "20" -> 20 [] term = "25" -> 25 [] term = "30" -> 30

\* ------------------------------------------------------------------------
\* State: the tables of the database, whether the database can be reached,
\* the clock in milliseconds (created_at and updated_at are its readings),
\* the last handler call with what it returned to its caller, the state of the
\* client page, and the getMortgageQuotes invocations in progress.
\* ------------------------------------------------------------------------
VARIABLES lenders, rates, quoteRequests, db, now, call, result, client, invocations

vars == <<lenders, rates, quoteRequests, db, now, call, result, client, invocations>>

\* The tables.
tables == <<lenders, rates, quoteRequests>>

MaxLenders == 2

MaxRates == 2

MaxQuoteRequests == 2

\* The catalog holds at most this many rows, lenders and rates together.
MaxCatalogRows == 4

\* The clock stops at this reading.
MaxClock == 2

NULL == <<>>

\* Ids are serial: the row with id i is the i-th inserted, and rows are never deleted.
LenderIds == 1..Len(lenders)

RateIds == 1..Len(rates)

\* ---- inputs ------------------------------------------------------------
CreateLenderInputs ==
    { [name |-> "Test Bank", logo_url |-> <<"logo.png">>, is_active |-> TRUE] }

UpdateLenderInputs ==
    { [id |-> i, is_active |-> b] : i \in 1..MaxLenders, b \in BOOLEAN }

RateTemplates ==
    { [loan_type |-> "conventional", loan_term |-> "30", interest_rate |-> 6000,
       apr |-> 6750, points |-> 100, min_credit_score |-> 700,
       max_loan_amount |-> 500000, min_down_payment_percent |-> 1000,
       closing_costs |-> <<0>>, is_active |-> TRUE],
      [loan_type |-> "conventional", loan_term |-> "30", interest_rate |-> 0,
       apr |-> 6200, points |-> 0, min_credit_score |-> 740,
       max_loan_amount |-> 300000, min_down_payment_percent |-> 2000,
       closing_costs |-> NULL, is_active |-> TRUE] }

CreateMortgageRateInputs ==
    { [lender_id |-> l] @@ t : l \in 1..MaxLenders, t \in RateTemplates }

UpdateMortgageRateInputs ==
    { [id |-> i, is_active |-> b] : i \in 1..MaxRates, b \in BOOLEAN }
    \cup { [id |-> i, lender_id |-> l] : i \in 1..MaxRates, l \in 1..MaxLenders }

\* The profile fields that describe the property and the borrower's debt;
\* debt_to_income_ratio is in hundredths of a percent, or NULL.
PropertyOfTest ==
    [property_type |-> "single_family", occupancy_type |-> "primary",
     zip_code |-> "90210", debt_to_income_ratio |-> <<3550>>]

PropertyOfInvestor ==
    [property_type |-> "condo", occupancy_type |-> "investment",
     zip_code |-> "10001", debt_to_income_ratio |-> NULL]

\* Borrower profiles.  The last one has property_value = 0, which only a
\* caller that bypasses input validation can pass.
QuoteRequestInputs ==
    { [loan_amount |-> 400000, property_value |-> 500000, down_payment |-> 100000,
       credit_score |-> 750, loan_type |-> "conventional", loan_term |-> "30"]
        @@ PropertyOfTest,
      [loan_amount |-> 80000, property_value |-> 100000, down_payment |-> 19996,
       credit_score |-> 780, loan_type |-> "conventional", loan_term |-> "30"]
        @@ PropertyOfTest,
      [loan_amount |-> 240000, property_value |-> 300000, down_payment |-> 60000,
       credit_score |-> 780, loan_type |-> "conventional", loan_term |-> "30"]
        @@ PropertyOfInvestor,
      [loan_amount |-> 240000, property_value |-> 300000, down_payment |-> 60000,
       credit_score |-> 720, loan_type |-> "conventional", loan_term |-> "30"]
        @@ PropertyOfTest,
      [loan_amount |-> 240000, property_value |-> 300000, down_payment |-> 60000,
       credit_score |-> 780, loan_type |-> "fha", loan_term |-> "15"]
        @@ PropertyOfTest,
      [loan_amount |-> 400000, property_value |-> 0, down_payment |-> 100000,
       credit_score |-> 750, loan_type |-> "conventional", loan_term |-> "30"]
        @@ PropertyOfTest }

\* The amortization helpers are pure, so their results over the arguments the
\* inputs above can produce are computed once and looked up afterwards.
AmortizationArgs ==
    { <<p.loan_amount, t.interest_rate, ParseInt(p.loan_term)>> :
        p \in QuoteRequestInputs, t \in RateTemplates }

MonthlyPayments ==
    { <<x, calculateMonthlyPayment(x[1], x[2], x[3])>> : x \in AmortizationArgs }

TotalInterests ==
    { <<x, calculateTotalInterest(x[1], x[2], x[3])>> : x \in AmortizationArgs }

Lookup(table, x) == (CHOOSE e \in table : e[1] = x)[2]

\* useState of App: no quotes, not loading, nothing searched; no request sent.
InitialClient ==
    [quotes |-> <<>>, isLoading |-> FALSE, hasSearched |-> FALSE, request |-> NULL]

\* The callers whose getMortgageQuotes invocations can be in progress together.
Callers == {"a", "b"}

Init ==
    /\ lenders = <<>>
    /\ rates = <<>>
    /\ quoteRequests = <<>>
    /\ db = "up"
    /\ now = 0
    /\ call = [op |-> "none"]
    /\ result = [ok |-> TRUE, value |-> <<>>]
    /\ client = InitialClient
    /\ invocations = [c \in Callers |-> [pc |-> "idle"]]

\* ---- catalog handlers --------------------------------------------------
Ok(v) == [ok |-> TRUE, value |-> v]

Failed(msg) == [ok |-> FALSE, value |-> msg]

\* The error the database driver throws when the database cannot be reached;
\* every handler logs it and throws it on.
ConnectionError == "connect ECONNREFUSED"

\* The fields of `input` that hold a value overwrite those of `row`.
ApplyUpdateOfValues(row, input) ==
    [f \in DOMAIN row |->
        IF f \in DOMAIN input /\ f # "id" /\ input[f] # NULL THEN input[f] ELSE row[f]]

\* The fields of `input` other than id overwrite those of `row`.
ApplyUpdate(row, input) ==
    [f \in DOMAIN row |-> IF f \in DOMAIN input /\ f # "id" THEN input[f] ELSE row[f]]

createLender(input) ==
    /\ Len(lenders) < MaxLenders
    /\ Len(lenders) + Len(rates) < MaxCatalogRows
    /\ IF db = "down"
       THEN /\ result' = Failed(ConnectionError)
            /\ UNCHANGED lenders
       ELSE LET row == [id |-> Len(lenders) + 1, created_at |-> now, updated_at |-> now]
                       @@ input
            IN  /\ lenders' = Append(lenders, row)
                /\ result' = Ok(row)
    /\ call' = [op |-> "createLender", input |-> input]
    /\ UNCHANGED <<rates, quoteRequests>>

updateLender(input) ==
    /\ call' = [op |-> "updateLender", input |-> input]
    /\ IF db = "down"
       THEN /\ result' = Failed(ConnectionError)
            /\ UNCHANGED lenders
       ELSE IF input.id \notin LenderIds
       THEN /\ result' = Failed("Lender not found")
            /\ UNCHANGED lenders
       ELSE LET row == [ApplyUpdate(lenders[input.id], input) EXCEPT !.updated_at = now]
            IN  /\ lenders' = [lenders EXCEPT ![input.id] = row]
                /\ result' = Ok(row)
    /\ UNCHANGED <<rates, quoteRequests>>

\* createMortgageRate looking for the lender among the active lenders only.
createMortgageRateOfActiveLender(input) ==
    /\ Len(rates) < MaxRates
    /\ Len(lenders) + Len(rates) < MaxCatalogRows
    /\ call' = [op |-> "createMortgageRate", input |-> input]
    /\ IF db = "down"
       THEN /\ result' = Failed(ConnectionError)
            /\ UNCHANGED rates
       ELSE IF input.lender_id \notin { i \in LenderIds : lenders[i].is_active }
       THEN /\ result' = Failed("Lender not found")
            /\ UNCHANGED rates
       ELSE LET row == [id |-> Len(rates) + 1, created_at |-> now, updated_at |-> now]
                       @@ input
            IN  /\ rates' = Append(rates, row)
                /\ result' = Ok(row)
    /\ UNCHANGED <<lenders, quoteRequests>>

\* createMortgageRate: the lender is looked up by id; without it the call
\* throws, with it one row is inserted and returned.
createMortgageRate(input) ==
    /\ Len(rates) < MaxRates
    /\ Len(lenders) + Len(rates) < MaxCatalogRows
    /\ call' = [op |-> "createMortgageRate", input |-> input]
    /\ IF db = "down"
       THEN /\ result' = Failed(ConnectionError)
            /\ UNCHANGED rates
       ELSE IF input.lender_id \notin LenderIds
       THEN /\ result' = Failed("Lender not found")
            /\ UNCHANGED rates
       ELSE LET row == [id |-> Len(rates) + 1, created_at |-> now, updated_at |-> now]
                       @@ input
            IN  /\ rates' = Append(rates, row)
                /\ result' = Ok(row)
    /\ UNCHANGED <<lenders, quoteRequests>>

\* updateMortgageRate without the lookup of the new lender.
updateMortgageRateOfAnyLender(input) ==
    /\ call' = [op |-> "updateMortgageRate", input |-> input]
    /\ IF db = "down"
       THEN /\ result' = Failed(ConnectionError)
            /\ UNCHANGED rates
       ELSE IF input.id \notin RateIds
       THEN /\ result' = Failed("Mortgage rate not found")
            /\ UNCHANGED rates
       ELSE LET row == [ApplyUpdate(rates[input.id], input) EXCEPT !.updated_at = now]
            IN  /\ rates' = [rates EXCEPT ![input.id] = row]
                /\ result' = Ok(row)
    /\ UNCHANGED <<lenders, quoteRequests>>

updateMortgageRate(input) ==
    /\ call' = [op |-> "updateMortgageRate", input |-> input]
    /\ IF db = "down"
       THEN /\ result' = Failed(ConnectionError)
            /\ UNCHANGED rates
       ELSE IF input.id \notin RateIds
       THEN /\ result' = Failed("Mortgage rate not found")
            /\ UNCHANGED rates
       ELSE IF "lender_id" \in DOMAIN input /\ input.lender_id \notin LenderIds
       THEN /\ result' = Failed("Lender not found")
            /\ UNCHANGED rates
       ELSE LET row == [ApplyUpdate(rates[input.id], input) EXCEPT !.updated_at = now]
            IN  /\ rates' = [rates EXCEPT ![input.id] = row]
                /\ result' = Ok(row)
    /\ UNCHANGED <<lenders, quoteRequests>>

\* createMortgageQuoteRequest: one INSERT, the row returned.
createMortgageQuoteRequest(input) ==
    /\ Len(quoteRequests) < MaxQuoteRequests
    /\ call' = [op |-> "createMortgageQuoteRequest", input |-> input]
    /\ IF db = "down"
       THEN /\ result' = Failed(ConnectionError)
            /\ UNCHANGED quoteRequests
       ELSE LET row == [id |-> Len(quoteRequests) + 1, created_at |-> now] @@ input
            IN  /\ quoteRequests' = Append(quoteRequests, row)
                /\ result' = Ok(row)
    /\ UNCHANGED <<lenders, rates>>

\* ---- quote engine ------------------------------------------------------
\* The WHERE clause without the credit score condition.
MatchesAnyCreditScore(rate, lender, input, downPaymentPercent) ==
    /\ rate.loan_type = input.loan_type
    /\ rate.loan_term = input.loan_term
    /\ rate.max_loan_amount >= input.loan_amount
    /\ rate.min_down_payment_percent <= downPaymentPercent.floor
    /\ rate.is_active
    /\ lender.is_active

\* The WHERE clause without the condition on the lender's is_active.
MatchesAnyLender(rate, lender, input, downPaymentPercent) ==
    /\ rate.loan_type = input.loan_type
    /\ rate.loan_term = input.loan_term
    /\ rate.min_credit_score <= input.credit_score
    /\ rate.max_loan_amount >= input.loan_amount
    /\ rate.min_down_payment_percent <= downPaymentPercent.floor
    /\ rate.is_active

\* The WHERE clause with a condition on the profile's occupancy_type added.
MatchesPrimaryOccupancy(rate, lender, input, downPaymentPercent) ==
    /\ rate.loan_type = input.loan_type
    /\ rate.loan_term = input.loan_term
    /\ rate.min_credit_score <= input.credit_score
    /\ rate.max_loan_amount >= input.loan_amount
    /\ rate.min_down_payment_percent <= downPaymentPercent.floor
    /\ rate.is_active
    /\ lender.is_active
    /\ input.occupancy_type = "primary"

\* The WHERE clause over a rate row joined with its lender row;
\* downPaymentPercent is the unrounded value.
Matches(rate, lender, input, downPaymentPercent) ==
    /\ rate.loan_type = input.loan_type
    /\ rate.loan_term = input.loan_term
    /\ rate.min_credit_score <= input.credit_score
    /\ rate.max_loan_amount >= input.loan_amount
    /\ rate.min_down_payment_percent <= downPaymentPercent.floor
    /\ rate.is_active
    /\ lender.is_active

\* Ids of the rows the join and WHERE select.
Selected(input, downPaymentPercent) ==
    { i \in RateIds :
        /\ rates[i].lender_id \in LenderIds
        /\ Matches(rates[i], lenders[rates[i].lender_id], input, downPaymentPercent) }

\* The rows of a query without ORDER BY come back in whatever order the
\* database produces: every arrangement of the rows.
AnyOrder(ids) ==
    { s \in [1..Cardinality(ids) -> ids] : \A i, j \in DOMAIN s : i # j => s[i] # s[j] }

\* The selected rows without the ORDER BY.
Unordered(ids) == AnyOrder(ids)

\* ORDER BY apr ASC: every arrangement of the selected rows in which apr never
\* decreases.  The query names no second key, so rows of equal apr come back
\* in whatever order the database produces.
OrderedByApr(ids) ==
    { s \in [1..Cardinality(ids) -> ids] :
        /\ \A i, j \in DOMAIN s : i # j => s[i] # s[j]
        /\ \A i, j \in DOMAIN s : i < j => rates[s[i]].apr <= rates[s[j]].apr }

\* The conversion with the column read as a number, whose 0 is falsy.
closingCostsOfNumber(closing_costs) ==
    IF closing_costs # NULL /\ closing_costs[1] # 0 THEN closing_costs ELSE NULL

\* result.closing_costs ? parseFloat(result.closing_costs) : null.  The column
\* holds NULL or the text of a numeric(10,2), which is never the empty string,
\* so every non-null value is truthy, '0.00' included.
closingCosts(closing_costs) ==
    IF closing_costs # NULL THEN closing_costs ELSE NULL

\* The quote built from one result row.
Quote(rate, lender, input, downPaymentPercent, loanToValueRatio) ==
    [ rate_id |-> rate.id,
      lender_id |-> rate.lender_id,
      lender_name |-> lender.name,
      lender_logo_url |-> lender.logo_url,
      loan_type |-> rate.loan_type,
      loan_term |-> rate.loan_term,
      interest_rate |-> rate.interest_rate,
      apr |-> rate.apr,
      points |-> rate.points,
      monthly_payment |->
          Lookup(MonthlyPayments,
                 <<input.loan_amount, rate.interest_rate, ParseInt(input.loan_term)>>),
      total_interest |->
          Lookup(TotalInterests,
                 <<input.loan_amount, rate.interest_rate, ParseInt(input.loan_term)>>),
      closing_costs |-> closingCosts(rate.closing_costs),
      down_payment_percent |-> Round2(downPaymentPercent),
      loan_to_value_ratio |-> Round2(loanToValueRatio) ]

\* What the handler returns when the database runs its query.
QueryResults(input) ==
    LET downPaymentPercent == PercentOf(input.down_payment, input.property_value)
        loanToValueRatio == PercentOf(input.loan_amount, input.property_value)
    IN  { Ok([k \in DOMAIN rows |->
                Quote(rates[rows[k]], lenders[rates[rows[k]].lender_id],
                      input, downPaymentPercent, loanToValueRatio)]) :
            rows \in OrderedByApr(Selected(input, downPaymentPercent)) }
        \cup IF downPaymentPercent.floor = Infinity
             THEN { Failed("invalid input syntax for type numeric") }
             ELSE {}

\* The handler with a catch block that returns no quotes instead of throwing.
ResponsesEmptyOnError(input) ==
    IF db = "down" THEN { Ok(<<>>) } ELSE QueryResults(input)

\* What a call with `input` can return now: the quotes of the selected rows in
\* one of the orders the query can produce, or the error of a database that
\* does not take 'Infinity' as a numeric, or, when the database cannot be
\* reached, the error of the query, which the catch block throws on.
Responses(input) ==
    IF db = "down" THEN { Failed(ConnectionError) } ELSE QueryResults(input)

\* getMortgageQuotes with the borrower's profile stored as a quote request.
getMortgageQuotesStoringRequest(input) ==
    /\ call' = [op |-> "getMortgageQuotes", input |-> input]
    /\ result' \in Responses(input)
    /\ quoteRequests' = Append(quoteRequests,
                               [id |-> Len(quoteRequests) + 1, created_at |-> now] @@ input)
    /\ UNCHANGED <<lenders, rates>>

getMortgageQuotes(input) ==
    /\ call' = [op |-> "getMortgageQuotes", input |-> input]
    /\ result' \in Responses(input)
    /\ UNCHANGED <<lenders, rates, quoteRequests>>

\* The catalog is written and quotes are asked for, one call at a time, on a
\* database that can be reached.
Next ==
    \/ \E input \in CreateLenderInputs :
          createLender(input) /\ UNCHANGED <<db, now, client, invocations>>
    \/ \E input \in UpdateLenderInputs :
          updateLender(input) /\ UNCHANGED <<db, now, client, invocations>>
    \/ \E input \in CreateMortgageRateInputs :
          createMortgageRate(input) /\ UNCHANGED <<db, now, client, invocations>>
    \/ \E input \in UpdateMortgageRateInputs :
          updateMortgageRate(input) /\ UNCHANGED <<db, now, client, invocations>>
    \/ \E input \in QuoteRequestInputs :
          getMortgageQuotes(input) /\ UNCHANGED <<db, now, client, invocations>>

Spec == Init /\ [][Next]_vars

\* ---- the amortization helpers on small loans ---------------------------------
\* The largest loan amount of the small loans, in dollars.
MaxLoanAmount == 25

\* Interest rates in thousandths of a percent: none, 0.5, 3 and 6 percent.
SmallLoanRates == {0, 500, 3000, 6000}

SmallLoanArgs ==
    { <<loanAmount, interestRate, ParseInt(term)>> :
        loanAmount \in 1..MaxLoanAmount, interestRate \in SmallLoanRates,
        term \in {"15", "30"} }

\* The helpers are pure: their results on the small loans are computed once.
SmallLoanInterests ==
    { <<x, calculateTotalInterest(x[1], x[2], x[3])>> : x \in SmallLoanArgs }

\* calculateTotalInterest is applied to a loan; the result is in whole cents.
totalInterest(loanAmount, interestRate, loanTermYears) ==
    /\ call' = [op |-> "calculateTotalInterest",
                input |-> <<loanAmount, interestRate, loanTermYears>>]
    /\ result' = Ok(Lookup(SmallLoanInterests, <<loanAmount, interestRate, loanTermYears>>))
    /\ UNCHANGED <<lenders, rates, quoteRequests, db, now, client, invocations>>

NextAmortization == \E x \in SmallLoanArgs : totalInterest(x[1], x[2], x[3])

SpecAmortization == Init /\ [][NextAmortization]_vars

\* ---- time ------------------------------------------------------------------
\* A millisecond passes.
Tick ==
    /\ now < MaxClock
    /\ now' = now + 1
    /\ UNCHANGED <<lenders, rates, quoteRequests, db, call, result, client, invocations>>

\* ---- the catalog is edited ----------------------------------------------------
\* The edits of a lender: nothing but the id, the logo removed, the lender
\* switched off.
LenderEdits ==
    { [id |-> i] : i \in 1..MaxLenders }
    \cup { [id |-> i, logo_url |-> NULL] : i \in 1..MaxLenders }
    \cup { [id |-> i, is_active |-> FALSE] : i \in 1..MaxLenders }

\* The edits of a rate: nothing but the id, the closing costs removed, the
\* rate moved to a lender.
RateEdits ==
    { [id |-> i] : i \in 1..MaxRates }
    \cup { [id |-> i, closing_costs |-> NULL] : i \in 1..MaxRates }
    \cup { [id |-> i, lender_id |-> l] : i \in 1..MaxRates, l \in 1..MaxLenders }

\* The rates that get edited start with closing costs.
EditedRateInputs == { i \in CreateMortgageRateInputs : i.closing_costs # NULL }

\* One lender and its rates are created, then time passes while lenders and
\* rates are edited, one call at a time.
NextWrites ==
    \/ \E input \in CreateLenderInputs :
          /\ lenders = <<>>
          /\ createLender(input)
          /\ UNCHANGED <<db, now, client, invocations>>
    \/ \E input \in EditedRateInputs :
          /\ now = 0
          /\ createMortgageRate(input)
          /\ UNCHANGED <<db, now, client, invocations>>
    \/ \E input \in LenderEdits :
          updateLender(input) /\ UNCHANGED <<db, now, client, invocations>>
    \/ \E input \in RateEdits :
          updateMortgageRate(input) /\ UNCHANGED <<db, now, client, invocations>>
    \/ Tick

SpecWrites == Init /\ [][NextWrites]_vars

\* ---- the listing queries --------------------------------------------------
\* getLenders without its WHERE clause.
getAllLenders ==
    /\ call' = [op |-> "getLenders"]
    /\ IF db = "down"
       THEN result' = Failed(ConnectionError)
       ELSE \E rows \in AnyOrder(LenderIds) :
               result' = Ok([k \in DOMAIN rows |-> lenders[rows[k]]])
    /\ UNCHANGED <<lenders, rates, quoteRequests>>

\* getLenders: SELECT ... FROM lenders WHERE is_active = true.
getLenders ==
    /\ call' = [op |-> "getLenders"]
    /\ IF db = "down"
       THEN result' = Failed(ConnectionError)
       ELSE \E rows \in AnyOrder({ i \in LenderIds : lenders[i].is_active }) :
               result' = Ok([k \in DOMAIN rows |-> lenders[rows[k]]])
    /\ UNCHANGED <<lenders, rates, quoteRequests>>

\* getMortgageRates: the rates joined with their lenders, WHERE the rate's
\* is_active = true; each joined row is flattened to the rate's columns.
getMortgageRates ==
    /\ call' = [op |-> "getMortgageRates"]
    /\ IF db = "down"
       THEN result' = Failed(ConnectionError)
       ELSE \E rows \in AnyOrder({ i \in RateIds : /\ rates[i].lender_id \in LenderIds
                                                   /\ rates[i].is_active }) :
               result' = Ok([k \in DOMAIN rows |->
                               [rates[rows[k]] EXCEPT
                                  !.closing_costs = closingCosts(rates[rows[k]].closing_costs)]])
    /\ UNCHANGED <<lenders, rates, quoteRequests>>

\* The catalog is written and listed, one call at a time.
NextReads ==
    \/ \E input \in CreateLenderInputs :
          createLender(input) /\ UNCHANGED <<db, now, client, invocations>>
    \/ \E input \in UpdateLenderInputs :
          updateLender(input) /\ UNCHANGED <<db, now, client, invocations>>
    \/ \E input \in CreateMortgageRateInputs :
          createMortgageRate(input) /\ UNCHANGED <<db, now, client, invocations>>
    \/ \E input \in UpdateMortgageRateInputs :
          updateMortgageRate(input) /\ UNCHANGED <<db, now, client, invocations>>
    \/ getLenders /\ UNCHANGED <<db, now, client, invocations>>
    \/ getMortgageRates /\ UNCHANGED <<db, now, client, invocations>>

SpecReads == Init /\ [][NextReads]_vars

\* ---- a database that comes and goes -------------------------------------
\* The profile a borrower stores as a quote request.
StoredRequestInputs == { p \in QuoteRequestInputs : p.property_value = 500000 }

DbFails ==
    /\ db = "up"
    /\ db' = "down"
    /\ UNCHANGED <<lenders, rates, quoteRequests, now, call, result, client, invocations>>

DbRecovers ==
    /\ db = "down"
    /\ db' = "up"
    /\ UNCHANGED <<lenders, rates, quoteRequests, now, call, result, client, invocations>>

\* Lenders, rates and quote requests are created and quotes are asked for,
\* one call at a time, while the database becomes unreachable and comes back.
NextFaults ==
    \/ \E input \in CreateLenderInputs :
          createLender(input) /\ UNCHANGED <<db, now, client, invocations>>
    \/ \E input \in CreateMortgageRateInputs :
          createMortgageRate(input) /\ UNCHANGED <<db, now, client, invocations>>
    \/ \E input \in StoredRequestInputs :
          createMortgageQuoteRequest(input) /\ UNCHANGED <<db, now, client, invocations>>
    \/ \E input \in QuoteRequestInputs :
          getMortgageQuotes(input) /\ UNCHANGED <<db, now, client, invocations>>
    \/ DbFails
    \/ DbRecovers

SpecFaults == Init /\ [][NextFaults]_vars

\* ---- the stored quote requests ---------------------------------------------
\* The profiles that are stored: the test profile with a debt-to-income
\* ratio, with a ratio of zero and without one.
RequestInputs ==
    StoredRequestInputs
    \cup { [p EXCEPT !.debt_to_income_ratio = d] : p \in StoredRequestInputs, d \in {NULL, <<0>>} }

\* ORDER BY created_at with the oldest row first.
OldestFirst(ids) ==
    { s \in AnyOrder(ids) :
        \A i, j \in DOMAIN s :
            i < j => quoteRequests[s[i]].created_at <= quoteRequests[s[j]].created_at }

\* ORDER BY created_at DESC: every arrangement of the rows in which created_at
\* never increases; rows of equal created_at come back in whatever order the
\* database produces.
MostRecentFirst(ids) ==
    { s \in AnyOrder(ids) :
        \A i, j \in DOMAIN s :
            i < j => quoteRequests[s[i]].created_at >= quoteRequests[s[j]].created_at }

\* request.debt_to_income_ratio ? parseFloat(request.debt_to_income_ratio) : null.
\* The column holds NULL or the text of a numeric, which is never the empty
\* string, so every non-null value is truthy.
debtToIncomeRatio(debt_to_income_ratio) ==
    IF debt_to_income_ratio # NULL THEN debt_to_income_ratio ELSE NULL

\* getMortgageQuoteRequests: SELECT ... FROM mortgage_quote_requests ORDER BY
\* created_at DESC, the numeric columns parsed.
getMortgageQuoteRequests ==
    /\ call' = [op |-> "getMortgageQuoteRequests"]
    /\ IF db = "down"
       THEN result' = Failed(ConnectionError)
       ELSE \E rows \in MostRecentFirst(DOMAIN quoteRequests) :
               result' = Ok([k \in DOMAIN rows |->
                               [quoteRequests[rows[k]] EXCEPT
                                  !.debt_to_income_ratio =
                                      debtToIncomeRatio(quoteRequests[rows[k]].debt_to_income_ratio)]])
    /\ UNCHANGED <<lenders, rates, quoteRequests>>

\* Quote requests are stored and listed, one call at a time, while time
\* passes.
NextRequests ==
    \/ \E input \in RequestInputs :
          createMortgageQuoteRequest(input) /\ UNCHANGED <<db, now, client, invocations>>
    \/ getMortgageQuoteRequests /\ UNCHANGED <<db, now, client, invocations>>
    \/ Tick

SpecRequests == Init /\ [][NextRequests]_vars

\* ---- the client page -----------------------------------------------------
\* client.request holds the queries that invocations of handleSubmit await,
\* in the order they were submitted: the input of each and, once the query
\* has settled, the reply it settled with.

\* What the form holds when it is submitted: its initial formData.
FormInputs == StoredRequestInputs

\* fetchedQuotes.sort((a, b) => a.apr - b.apr): Array.prototype.sort is stable.
SortByApr(quotes) ==
    LET perm == CHOOSE f \in AnyOrder(DOMAIN quotes) :
                    \A i, j \in DOMAIN f :
                        i < j => \/ quotes[f[i]].apr < quotes[f[j]].apr
                                 \/ /\ quotes[f[i]].apr = quotes[f[j]].apr
                                    /\ f[i] < f[j]
    IN  [k \in DOMAIN quotes |-> quotes[perm[k]]]

\* handleSubmit behind a button that is never disabled.
handleSubmitWhileLoading(input) ==
    /\ client' = [client EXCEPT !.isLoading = TRUE, !.hasSearched = TRUE,
                                !.request = Append(client.request,
                                                   [input |-> input, reply |-> NULL])]
    /\ UNCHANGED <<lenders, rates, quoteRequests, db, now, call, result, invocations>>

\* handleSubmit up to its await: the button that submits the form is disabled
\* while isLoading.
handleSubmit(input) ==
    /\ ~client.isLoading
    /\ client' = [client EXCEPT !.isLoading = TRUE, !.hasSearched = TRUE,
                                !.request = Append(client.request,
                                                   [input |-> input, reply |-> NULL])]
    /\ UNCHANGED <<lenders, rates, quoteRequests, db, now, call, result, invocations>>

\* trpc.getMortgageQuotes.query(formData) reaches the server, which runs the
\* handler; what the handler returns or throws settles the query.
query ==
    \E k \in DOMAIN client.request :
        /\ client.request[k].reply = NULL
        /\ getMortgageQuotes(client.request[k].input)
        /\ client' = [client EXCEPT !.request[k].reply = <<result'>>]
        /\ UNCHANGED <<db, now, invocations>>

\* The request or its response is lost on the way: the query rejects.
transportFails ==
    \E k \in DOMAIN client.request :
        /\ client.request[k].reply = NULL
        /\ client' = [client EXCEPT !.request[k].reply = <<Failed("Failed to fetch")>>]
        /\ UNCHANGED <<lenders, rates, quoteRequests, db, now, call, result, invocations>>

\* The sequence without its k-th element.
Remove(seq, k) == [i \in 1..(Len(seq) - 1) |-> IF i < k THEN seq[i] ELSE seq[i + 1]]

\* AfterReply with setIsLoading(false) at the end of the try block instead of
\* in a finally block.
AfterReplyWithoutFinally(c, reply) ==
    [c EXCEPT !.quotes = IF reply.ok THEN SortByApr(reply.value) ELSE <<>>,
              !.isLoading = ~reply.ok]

\* What the rest of handleSubmit sets when it runs on `reply`: the try block
\* after the await, or the catch block, and then the finally block.
AfterReply(c, reply) ==
    [c EXCEPT !.quotes = IF reply.ok THEN SortByApr(reply.value) ELSE <<>>,
              !.isLoading = FALSE]

\* handleSubmit from its await on: the invocation whose query has settled
\* goes on and ends.
handleReply ==
    \E k \in DOMAIN client.request :
        /\ client.request[k].reply # NULL
        /\ client' = [AfterReply(client, client.request[k].reply[1])
                         EXCEPT !.request = Remove(client.request, k)]
        /\ UNCHANGED <<lenders, rates, quoteRequests, db, now, call, result, invocations>>

\* A borrower uses the page while lenders and rates are created and the
\* database and the network come and go.
NextClient ==
    \/ \E input \in CreateLenderInputs :
          createLender(input) /\ UNCHANGED <<db, now, client, invocations>>
    \/ \E input \in CreateMortgageRateInputs :
          createMortgageRate(input) /\ UNCHANGED <<db, now, client, invocations>>
    \/ DbFails
    \/ DbRecovers
    \/ \E input \in FormInputs : handleSubmit(input)
    \/ query
    \/ transportFails
    \/ handleReply

SpecClient == Init /\ [][NextClient]_vars

\* The page with its promises kept: once the query of an invocation of
\* handleSubmit has settled, the rest of the invocation runs.
SpecClientLive == SpecClient /\ WF_vars(handleReply)

\* ---- getMortgageQuotes, step by step -------------------------------------
\* The handler is async: it sends its query and awaits the rows, and other
\* handlers run before the query runs and before the handler goes on.
\* getMortgageQuotes(input) above is an invocation that nothing interleaves
\* with.  An invocation in progress holds its input, then the outcome of its
\* query; `snapshot` records what a call could return when the query ran.

\* What the query of an invocation can produce: the joined rows in one of the
\* orders of ORDER BY apr, or the error of the database.
QueryOutcomes(input) ==
    LET downPaymentPercent == PercentOf(input.down_payment, input.property_value)
    IN  IF db = "down"
        THEN { Failed(ConnectionError) }
        ELSE { Ok([k \in DOMAIN rows |->
                     [rate |-> rates[rows[k]], lender |-> lenders[rates[rows[k]].lender_id]]]) :
                 rows \in OrderedByApr(Selected(input, downPaymentPercent)) }
             \cup IF downPaymentPercent.floor = Infinity
                  THEN { Failed("invalid input syntax for type numeric") }
                  ELSE {}

\* The handler is called: it computes the two ratios and sends its query.
beginQuotes(c, input) ==
    /\ invocations[c].pc = "idle"
    /\ invocations' = [invocations EXCEPT ![c] = [pc |-> "started", input |-> input]]
    /\ UNCHANGED <<lenders, rates, quoteRequests, db, now, call, result, client>>

\* The database runs the query of the invocation, one statement.
runQuery(c) ==
    /\ invocations[c].pc = "started"
    /\ \E outcome \in QueryOutcomes(invocations[c].input) :
          invocations' = [invocations EXCEPT ![c] =
                            [pc |-> "queried", input |-> invocations[c].input,
                             outcome |-> outcome,
                             snapshot |-> Responses(invocations[c].input)]]
    /\ UNCHANGED <<lenders, rates, quoteRequests, db, now, call, result, client>>

\* The rest of the handler with the query sent again instead of the rows
\* kept.
returnQuotesQueryingAgain(c) ==
    /\ invocations[c].pc = "queried"
    /\ call' = [op |-> "getMortgageQuotes", input |-> invocations[c].input]
    /\ result' \in Responses(invocations[c].input)
    /\ invocations' = [invocations EXCEPT ![c] = [pc |-> "idle"]]
    /\ UNCHANGED <<lenders, rates, quoteRequests, db, now, client>>

\* The rest of the handler: the rows are mapped to quotes and returned, or
\* the error of the query is thrown on.
returnQuotes(c) ==
    /\ invocations[c].pc = "queried"
    /\ call' = [op |-> "getMortgageQuotes", input |-> invocations[c].input]
    /\ LET input == invocations[c].input
           outcome == invocations[c].outcome
           downPaymentPercent == PercentOf(input.down_payment, input.property_value)
           loanToValueRatio == PercentOf(input.loan_amount, input.property_value)
       IN  result' = IF outcome.ok
                     THEN Ok([k \in DOMAIN outcome.value |->
                                Quote(outcome.value[k].rate, outcome.value[k].lender,
                                      input, downPaymentPercent, loanToValueRatio)])
                     ELSE outcome
    /\ invocations' = [invocations EXCEPT ![c] = [pc |-> "idle"]]
    /\ UNCHANGED <<lenders, rates, quoteRequests, db, now, client>>

\* The inputs of the calls that interleave: the rates of lender 1 at 6
\* percent, the switches of is_active, and the profiles of two borrowers whom
\* those rates fit.
ConcurrentRateInputs ==
    { i \in CreateMortgageRateInputs : i.lender_id = 1 /\ i.interest_rate = 6000 }

ConcurrentUpdateInputs ==
    { u \in UpdateMortgageRateInputs : "is_active" \in DOMAIN u }

ConcurrentQuoteInputs ==
    { p \in QuoteRequestInputs : /\ p.loan_amount \in {400000, 240000}
                                 /\ p.property_value > 0
                                 /\ p.credit_score >= 750
                                 /\ p.loan_type = "conventional" }

\* Two callers ask for quotes while the rates of one lender are created and
\* switched on and off; the steps of the invocations and the catalog writes
\* interleave.
NextConcurrent ==
    \/ \E input \in CreateLenderInputs :
          /\ lenders = <<>>
          /\ createLender(input)
          /\ UNCHANGED <<db, now, client, invocations>>
    \/ \E input \in ConcurrentRateInputs :
          createMortgageRate(input) /\ UNCHANGED <<db, now, client, invocations>>
    \/ \E input \in ConcurrentUpdateInputs :
          updateMortgageRate(input) /\ UNCHANGED <<db, now, client, invocations>>
    \/ \E c \in Callers, input \in ConcurrentQuoteInputs : beginQuotes(c, input)
    \/ \E c \in Callers : runQuery(c)
    \/ \E c \in Callers : returnQuotes(c)

SpecConcurrent == Init /\ [][NextConcurrent]_vars

\* ---- updateLender and updateMortgageRate, step by step ---------------------
\* The update handlers are async too: each awaits its SELECTs and its UPDATE,
\* and the steps of other invocations run in between.  An invocation in
\* progress holds its input, the row it selected and the updateData it built;
\* a finished one keeps its input and whether it succeeded.  A SELECT that
\* finds its row is one step with the synchronous code that follows it.

\* updateData: updated_at, read from the clock, and the fields of the input
\* that are not undefined.
UpdateData(input) ==
    [f \in (DOMAIN input \ {"id"}) \cup {"updated_at"} |->
        IF f = "updated_at" THEN now ELSE input[f]]

Finished(op, input, ok) == [pc |-> "done", op |-> op, input |-> input, ok |-> ok]

Updating(op, input, existing) ==
    [pc |-> "updating", op |-> op, input |-> input, existing |-> existing,
     updateData |-> UpdateData(input)]

\* updateLender up to its UPDATE: the lender is selected; without it the call
\* throws, with it updateData is built.
selectLender(c, input) ==
    /\ invocations[c].pc = "idle"
    /\ IF input.id \notin LenderIds
       THEN /\ call' = [op |-> "updateLender", input |-> input]
            /\ result' = Failed("Lender not found")
            /\ invocations' = [invocations EXCEPT ![c] = Finished("updateLender", input, FALSE)]
       ELSE /\ invocations' = [invocations EXCEPT ![c] =
                                 Updating("updateLender", input, lenders[input.id])]
            /\ UNCHANGED <<call, result>>
    /\ UNCHANGED <<lenders, rates, quoteRequests, db, now, client>>

\* updateMortgageRate up to its second await: the rate is selected; without
\* it the call throws; with it, and no lender_id in the input, updateData is
\* built; with a lender_id the lender is selected next.
selectMortgageRate(c, input) ==
    /\ invocations[c].pc = "idle"
    /\ IF input.id \notin RateIds
       THEN /\ call' = [op |-> "updateMortgageRate", input |-> input]
            /\ result' = Failed("Mortgage rate not found")
            /\ invocations' = [invocations EXCEPT ![c] =
                                 Finished("updateMortgageRate", input, FALSE)]
       ELSE /\ invocations' = [invocations EXCEPT ![c] =
                                 IF "lender_id" \in DOMAIN input
                                 THEN [pc |-> "checkingLender", op |-> "updateMortgageRate",
                                       input |-> input, existing |-> rates[input.id]]
                                 ELSE Updating("updateMortgageRate", input, rates[input.id])]
            /\ UNCHANGED <<call, result>>
    /\ UNCHANGED <<lenders, rates, quoteRequests, db, now, client>>

\* selectNewLender going on whether the lender was found or not.
selectNoLender(c) ==
    /\ invocations[c].pc = "checkingLender"
    /\ invocations' = [invocations EXCEPT ![c] =
                         Updating("updateMortgageRate", invocations[c].input,
                                  invocations[c].existing)]
    /\ UNCHANGED <<lenders, rates, quoteRequests, db, now, call, result, client>>

\* updateMortgageRate between its second await and its UPDATE: the new lender
\* is selected; without it the call throws, with it updateData is built.
selectNewLender(c) ==
    /\ invocations[c].pc = "checkingLender"
    /\ LET input == invocations[c].input
       IN  IF input.lender_id \notin LenderIds
           THEN /\ call' = [op |-> "updateMortgageRate", input |-> input]
                /\ result' = Failed("Lender not found")
                /\ invocations' = [invocations EXCEPT ![c] =
                                     Finished("updateMortgageRate", input, FALSE)]
           ELSE /\ invocations' = [invocations EXCEPT ![c] =
                                     Updating("updateMortgageRate", input,
                                              invocations[c].existing)]
                /\ UNCHANGED <<call, result>>
    /\ UNCHANGED <<lenders, rates, quoteRequests, db, now, client>>

\* The UPDATE writing the row the handler selected with updateData laid over
\* it, instead of setting the columns of updateData.
writeSelectedRow(c) ==
    /\ invocations[c].pc = "updating"
    /\ LET op == invocations[c].op
           input == invocations[c].input
           row == ApplyUpdate(invocations[c].existing, invocations[c].updateData)
       IN  /\ call' = [op |-> op, input |-> input]
           /\ result' = Ok(row)
           /\ invocations' = [invocations EXCEPT ![c] = Finished(op, input, TRUE)]
           /\ IF op = "updateLender"
              THEN /\ lenders' = [lenders EXCEPT ![input.id] = row]
                   /\ UNCHANGED rates
              ELSE /\ rates' = [rates EXCEPT ![input.id] = row]
                   /\ UNCHANGED lenders
    /\ UNCHANGED <<quoteRequests, db, now, client>>

\* The UPDATE of either handler runs, one statement: the columns of
\* updateData are set in the row with the id, and the row is returned.
write(c) ==
    /\ invocations[c].pc = "updating"
    /\ LET op == invocations[c].op
           input == invocations[c].input
           stored == IF op = "updateLender" THEN lenders[input.id] ELSE rates[input.id]
           row == ApplyUpdate(stored, invocations[c].updateData)
       IN  /\ call' = [op |-> op, input |-> input]
           /\ result' = Ok(row)
           /\ invocations' = [invocations EXCEPT ![c] = Finished(op, input, TRUE)]
           /\ IF op = "updateLender"
              THEN /\ lenders' = [lenders EXCEPT ![input.id] = row]
                   /\ UNCHANGED rates
              ELSE /\ rates' = [rates EXCEPT ![input.id] = row]
                   /\ UNCHANGED lenders
    /\ UNCHANGED <<quoteRequests, db, now, client>>

\* The edits that interleave: switches of is_active, the logo or the closing
\* costs removed, a rate moved to a lender.
InterleavedLenderEdits ==
    { [id |-> i, is_active |-> FALSE] : i \in 1..MaxLenders }
    \cup { e \in LenderEdits : "logo_url" \in DOMAIN e }

InterleavedRateEdits ==
    { [id |-> i, is_active |-> FALSE] : i \in 1..MaxRates }
    \cup { e \in RateEdits : DOMAIN e # {"id"} }

\* Lenders and rates are created, and each of two callers makes one update,
\* while time passes; the steps of the updates and the creations interleave.
NextInterleavedWrites ==
    \/ \E input \in CreateLenderInputs :
          /\ now = 0
          /\ createLender(input)
          /\ UNCHANGED <<db, now, client, invocations>>
    \/ \E input \in EditedRateInputs :
          /\ now = 0
          /\ createMortgageRate(input)
          /\ UNCHANGED <<db, now, client, invocations>>
    \/ \E c \in Callers, input \in InterleavedLenderEdits : selectLender(c, input)
    \/ \E c \in Callers, input \in InterleavedRateEdits : selectMortgageRate(c, input)
    \/ \E c \in Callers : selectNewLender(c)
    \/ \E c \in Callers : write(c)
    \/ Tick

SpecInterleavedWrites == Init /\ [][NextInterleavedWrites]_vars

\* ------------------------------------------------------------------------
\* Properties of getMortgageQuotes.  A call leaves the catalog as it was, so
\* right after a call `rates` and `lenders` are the catalog it read.
\* ------------------------------------------------------------------------
QuotesReturned == call.op = "getMortgageQuotes" /\ result.ok

Quotes == result.value

Profile == call.input

\* The rate record a quote was built from.
RateOf(q) == rates[q.rate_id]

\* C1: no returned quote comes from a rate record whose min_credit_score is
\* above the profile's credit_score, whose max_loan_amount is below the
\* profile's loan_amount, whose min_down_payment_percent is above the
\* down_payment_percent reported on the quote, or whose loan_type or loan_term
\* differs from the profile's.
C1_FilteringCorrectness ==
    QuotesReturned =>
        \A k \in DOMAIN Quotes :
            LET q == Quotes[k] IN
            /\ ~(RateOf(q).min_credit_score > Profile.credit_score)
            /\ ~(RateOf(q).max_loan_amount < Profile.loan_amount)
            /\ ~(RateOf(q).min_down_payment_percent > q.down_payment_percent)
            /\ RateOf(q).loan_type = Profile.loan_type
            /\ RateOf(q).loan_term = Profile.loan_term

\* A call returned a quote while leaving out an active rate of an active
\* lender whose min_credit_score the profile does not reach.
C1_Witness ==
    /\ QuotesReturned
    /\ Len(Quotes) = 1
    /\ \E i \in RateIds :
          /\ rates[i].is_active
          /\ lenders[rates[i].lender_id].is_active
          /\ rates[i].min_credit_score > Profile.credit_score
          /\ rates[i].max_loan_amount >= Profile.loan_amount
          /\ rates[i].loan_type = Profile.loan_type

\* C2: in every state reachable through the catalog handlers, a returned quote
\* belongs to a rate record that is currently active and whose current owning
\* lender is currently active.
C2_OnlyActiveCandidates ==
    QuotesReturned =>
        \A k \in DOMAIN Quotes :
            /\ RateOf(Quotes[k]).is_active
            /\ lenders[RateOf(Quotes[k]).lender_id].is_active

\* A call returned a quote for one rate and none for another active rate with
\* the same terms whose lender is inactive.
C2_Witness ==
    /\ QuotesReturned
    /\ Len(Quotes) = 1
    /\ \E i \in RateIds :
          /\ i # Quotes[1].rate_id
          /\ rates[i].is_active
          /\ ~lenders[rates[i].lender_id].is_active
          /\ [rates[i] EXCEPT !.id = 0, !.lender_id = 0]
               = [RateOf(Quotes[1]) EXCEPT !.id = 0, !.lender_id = 0]

\* C3: every record that is active, has an active lender, matches loan_type and
\* loan_term, has min_credit_score <= credit_score, max_loan_amount >=
\* loan_amount and min_down_payment_percent <= the rounded down_payment_percent
\* reported on the quotes appears in the result exactly once.
C3_EveryEligibleRateQuotedOnce ==
    QuotesReturned =>
        \A i \in RateIds :
            ( /\ rates[i].is_active
              /\ lenders[rates[i].lender_id].is_active
              /\ rates[i].loan_type = Profile.loan_type
              /\ rates[i].loan_term = Profile.loan_term
              /\ rates[i].min_credit_score <= Profile.credit_score
              /\ rates[i].max_loan_amount >= Profile.loan_amount
              /\ rates[i].min_down_payment_percent
                   <= Round2(PercentOf(Profile.down_payment, Profile.property_value)) )
            => Cardinality({k \in DOMAIN Quotes : Quotes[k].rate_id = i}) = 1

\* C4: the returned sequence is sorted non-decreasing by apr.
C4_SortedByApr ==
    QuotesReturned =>
        \A k \in DOMAIN Quotes : k + 1 \in DOMAIN Quotes => Quotes[k].apr <= Quotes[k + 1].apr

\* Two quotes were returned with the later-created, lower-apr rate first.
C4_Witness ==
    /\ QuotesReturned
    /\ Len(Quotes) = 2
    /\ Quotes[1].rate_id > Quotes[2].rate_id
    /\ Quotes[1].apr < Quotes[2].apr

\* C5: quotes of equal apr appear in catalog order, the order in which the
\* records were inserted (ascending id).
C5_TiesKeepCatalogOrder ==
    QuotesReturned =>
        \A j, k \in DOMAIN Quotes :
            (j < k /\ Quotes[j].apr = Quotes[k].apr) => Quotes[j].rate_id < Quotes[k].rate_id

\* C6: two calls in a row with the same profile (here a valid one, with
\* property_value > 0) return identical output.
C6_RepeatedCallSameOutput ==
    [][ ( /\ call.op = "getMortgageQuotes"
          /\ call'.op = "getMortgageQuotes"
          /\ call'.input = call.input
          /\ call.input.property_value > 0 )
        => result' = result ]_vars

\* C7: with property_value = 0 the call returns the empty sequence instead of
\* failing, and no returned quote carries a non-finite down_payment_percent or
\* loan_to_value_ratio.
C7_ZeroPropertyValueGuarded ==
    /\ (call.op = "getMortgageQuotes" /\ call.input.property_value = 0)
          => (result.ok /\ Len(result.value) = 0)
    /\ QuotesReturned =>
          \A k \in DOMAIN Quotes :
              /\ Quotes[k].down_payment_percent # Infinity
              /\ Quotes[k].loan_to_value_ratio # Infinity

\* h hundredths is a / v * 100 rounded to two decimals, halves upwards:
\* 2hv <= 2 * 10000a + v < 2hv + 2v.
IsRoundedPercent(h, a, v) ==
    LET twoHV == BigMul(BigFromInt(2 * h), BigFromInt(v))
        mid == BigAdd(BigMul(BigFromInt(20000), BigFromInt(a)), BigFromInt(v))
    IN  /\ BigLeq(twoHV, mid)
        /\ ~BigLeq(BigAdd(twoHV, BigFromInt(2 * v)), mid)

\* C8: every quote of a response carries down_payment_percent =
\* round(down_payment / property_value * 100, 2) and loan_to_value_ratio =
\* round(loan_amount / property_value * 100, 2), the same on all its quotes
\* (for a profile whose property_value is not 0, where the ratios are defined).
C8_DerivedRatios ==
    (QuotesReturned /\ Profile.property_value # 0) =>
        /\ \A k \in DOMAIN Quotes :
              /\ IsRoundedPercent(Quotes[k].down_payment_percent,
                                  Profile.down_payment, Profile.property_value)
              /\ IsRoundedPercent(Quotes[k].loan_to_value_ratio,
                                  Profile.loan_amount, Profile.property_value)
        /\ \A j, k \in DOMAIN Quotes :
              /\ Quotes[j].down_payment_percent = Quotes[k].down_payment_percent
              /\ Quotes[j].loan_to_value_ratio = Quotes[k].loan_to_value_ratio

\* A quote was returned for a down payment of 19.996 percent, reported as 20.00.
C8_Witness ==
    /\ QuotesReturned
    /\ Len(Quotes) > 0
    /\ Profile.down_payment = 19996
    /\ Profile.property_value = 100000
    /\ Quotes[1].down_payment_percent = 2000

\* C9: a quote whose rate record has interest_rate = 0 has monthly_payment =
\* loan_amount / (term_years * 12) and total_interest = 0.
C9_ZeroRatePayment ==
    QuotesReturned =>
        \A k \in DOMAIN Quotes :
            RateOf(Quotes[k]).interest_rate = 0 =>
                /\ Quotes[k].monthly_payment.num * ParseInt(Profile.loan_term) * 12
                     = Profile.loan_amount * 100 * Quotes[k].monthly_payment.den
                /\ Quotes[k].total_interest = 0

\* A quote was returned for a rate record with interest_rate = 0.
C9_Witness ==
    /\ QuotesReturned
    /\ \E k \in DOMAIN Quotes : RateOf(Quotes[k]).interest_rate = 0

\* C10: the monthly_payment of every quote is a whole number of cents, for
\* every rate including interest_rate = 0.
C10_PaymentInWholeCents ==
    QuotesReturned => \A k \in DOMAIN Quotes : Quotes[k].monthly_payment.den = 1

\* c cents is P * (r * (1 + r)^n) / ((1 + r)^n - 1) rounded to whole cents, with
\* r = R / 100 / 12 (R in thousandths of a percent) and P in dollars:
\* 2c * den <= 2 * num + den < 2c * den + 2 * den, where 100 * payment = num / den.
IsAmortizedPayment(c, P, R, n) ==
    LET r == MonthlyRate(R)
        g == FixPow(BigAdd(FixOne, r), n)
        num == BigMul(BigFromInt(P * 100), FixMul(r, g))
        den == BigSub(g, FixOne)
        twoCDen == BigMul(BigFromInt(2 * c), den)
        mid == BigAdd(BigMul(num, <<2>>), den)
    IN  /\ BigLeq(twoCDen, mid)
        /\ ~BigLeq(BigAdd(twoCDen, BigMul(den, <<2>>)), mid)

\* The whole-cent payments that are the rounded value of the formula, over the
\* loans the inputs can produce: <<P, R, years, c>>.
AmortizedPayments ==
    { <<e[1][1], e[1][2], e[1][3], e[2].num>> :
        e \in { m \in MonthlyPayments :
                  /\ m[1][2] > 0
                  /\ m[2].den = 1
                  /\ IsAmortizedPayment(m[2].num, m[1][1], m[1][2], m[1][3] * 12) } }

\* C11: for a quote whose rate record has interest_rate R > 0, monthly_payment is
\* P * (r * (1 + r)^n) / ((1 + r)^n - 1) rounded to two decimals, with P the
\* loan_amount, r = R / 100 / 12 and n = term_years * 12; for P = 400000, R = 6.0
\* and 30 years it is 2398.20 within 0.01.
C11_AmortizedPayment ==
    QuotesReturned =>
        \A k \in DOMAIN Quotes :
            RateOf(Quotes[k]).interest_rate > 0 =>
                /\ Quotes[k].monthly_payment.den = 1
                /\ <<Profile.loan_amount, RateOf(Quotes[k]).interest_rate,
                      ParseInt(Profile.loan_term), Quotes[k].monthly_payment.num>>
                       \in AmortizedPayments
                /\ ( /\ Profile.loan_amount = 400000
                     /\ RateOf(Quotes[k]).interest_rate = 6000
                     /\ Profile.loan_term = "30" )
                   => ( /\ Quotes[k].monthly_payment.num >= 239820 - 1
                        /\ Quotes[k].monthly_payment.num <= 239820 + 1 )

\* A quote was returned for 400000 at 6.0 percent over 30 years.
C11_Witness ==
    /\ QuotesReturned
    /\ Profile.loan_amount = 400000
    /\ Profile.property_value = 500000
    /\ Profile.loan_term = "30"
    /\ \E k \in DOMAIN Quotes : RateOf(Quotes[k]).interest_rate = 6000

\* C12: for every quote, total_interest = round(monthly_payment * term_years * 12
\* - loan_amount, 2) with the monthly_payment reported on that quote; in cents,
\* with monthly_payment = num / den: 2t * den <= 2x + den < 2t * den + 2 * den for
\* x = num * term_years * 12 - 100 * loan_amount * den.
C12_TotalInterest ==
    QuotesReturned =>
        \A k \in DOMAIN Quotes :
            LET mp == Quotes[k].monthly_payment
                t == Quotes[k].total_interest
                x == mp.num * ParseInt(Profile.loan_term) * 12
                       - Profile.loan_amount * 100 * mp.den
            IN  /\ 2 * t * mp.den <= 2 * x + mp.den
                /\ 2 * x + mp.den < 2 * t * mp.den + 2 * mp.den

\* A quote with a positive total interest was returned.
C12_Witness ==
    /\ QuotesReturned
    /\ \E k \in DOMAIN Quotes :
          /\ RateOf(Quotes[k]).interest_rate > 0
          /\ Quotes[k].total_interest > 0

\* The profiles that differ from p at most in property_type, occupancy_type,
\* zip_code and debt_to_income_ratio.
SameLoanProfiles(p) ==
    { [p EXCEPT !.property_type = d.property_type,
                !.occupancy_type = d.occupancy_type,
                !.zip_code = d.zip_code,
                !.debt_to_income_ratio = d.debt_to_income_ratio] :
        d \in { PropertyOfTest, PropertyOfInvestor,
                [property_type |-> "multi_family", occupancy_type |-> "secondary",
                 zip_code |-> "", debt_to_income_ratio |-> <<0>>] } }

\* C14: the quotes returned, their order and every field of every quote do not
\* depend on the profile's property_type, occupancy_type, zip_code and
\* debt_to_income_ratio: what a call returned is a result that every profile
\* differing only in those fields gets from the same catalog.
C14_IgnoredProfileFields ==
    call.op = "getMortgageQuotes" =>
        \A q \in SameLoanProfiles(call.input) : result \in Responses(q)

\* The investor's profile got two quotes, the result of the same loan on a
\* primary residence.
C14_Witness ==
    /\ QuotesReturned
    /\ Profile.occupancy_type = "investment"
    /\ Profile.debt_to_income_ratio = NULL
    /\ Len(Quotes) = 2
    /\ \E q \in SameLoanProfiles(Profile) :
          /\ q.occupancy_type = "primary"
          /\ result \in Responses(q)

\* C15: each quote carries the id, loan_type, loan_term, interest_rate, apr and
\* points of its rate record, the id, name and logo of the lender that owns the
\* record now, and the record's closing_costs: null exactly when the record's
\* is null, the same number otherwise, 0 included.
C15_QuoteCarriesRecord ==
    QuotesReturned =>
        \A k \in DOMAIN Quotes :
            LET q == Quotes[k]
                rate == rates[q.rate_id]
                lender == lenders[rate.lender_id]
            IN  /\ q.rate_id = rate.id
                /\ q.loan_type = rate.loan_type
                /\ q.loan_term = rate.loan_term
                /\ q.interest_rate = rate.interest_rate
                /\ q.apr = rate.apr
                /\ q.points = rate.points
                /\ q.lender_id = lender.id
                /\ q.lender_name = lender.name
                /\ q.lender_logo_url = lender.logo_url
                /\ (q.closing_costs = NULL) <=> (rate.closing_costs = NULL)
                /\ q.closing_costs = rate.closing_costs

\* One response quotes a record without closing costs and a record of lender 2
\* whose closing costs are 0.
C15_Witness ==
    /\ QuotesReturned
    /\ \E j, k \in DOMAIN Quotes :
          /\ RateOf(Quotes[j]).closing_costs = NULL
          /\ RateOf(Quotes[k]).closing_costs = <<0>>
          /\ Quotes[k].closing_costs = <<0>>
          /\ Quotes[k].lender_id = 2
          /\ call.op = "getMortgageQuotes"

\* C13: getMortgageQuotes performs no writes: after any call, successful, empty
\* or failing, the stored lenders, rate records and quote requests are what they
\* were before; computing quotes stores no quote request.
C13_NoWrites ==
    [][call'.op = "getMortgageQuotes" => UNCHANGED <<lenders, rates, quoteRequests>>]_vars

\* Quotes were returned while a quote request is stored.
C13_Witness ==
    /\ QuotesReturned
    /\ Len(Quotes) > 0
    /\ Len(quoteRequests) > 0

\* C16: when the catalog read fails, the whole call fails with the error of the
\* read: a call made while the database cannot be reached returns that error,
\* not an empty or partial list of quotes, and changes nothing.
C16_FailedReadPropagates ==
    [][( /\ db = "down"
         /\ db' = "down"
         /\ call'.op = "getMortgageQuotes"
         /\ <<call, result>>' # <<call, result>> )
       => /\ result' = Failed(ConnectionError)
          /\ UNCHANGED <<lenders, rates, quoteRequests>>]_vars

\* A call failed with the connection error though the catalog holds a rate the
\* profile is eligible for.
C16_Witness ==
    /\ call.op = "getMortgageQuotes"
    /\ db = "down"
    /\ result = Failed(ConnectionError)
    /\ Selected(call.input,
                PercentOf(call.input.down_payment, call.input.property_value)) # {}

\* C18: getMortgageRates returns exactly the rate records that are active and
\* belong to an active lender, each once.
C18_ActiveRatesOfActiveLenders ==
    (call.op = "getMortgageRates" /\ result.ok) =>
        /\ \A k \in DOMAIN result.value :
              /\ result.value[k].is_active
              /\ lenders[result.value[k].lender_id].is_active
        /\ \A i \in RateIds :
              (rates[i].is_active /\ lenders[rates[i].lender_id].is_active)
                  => Cardinality({ k \in DOMAIN result.value : result.value[k].id = i }) = 1

\* C19: getLenders returns exactly the lenders whose is_active is true now:
\* every active lender once, no inactive lender, so a lender that updateLender
\* deactivated is not in the next result.
C19_ActiveLenders ==
    (call.op = "getLenders" /\ result.ok) =>
        /\ \A k \in DOMAIN result.value :
              /\ result.value[k].id \in LenderIds
              /\ result.value[k] = lenders[result.value[k].id]
              /\ result.value[k].is_active
        /\ \A i \in LenderIds :
              lenders[i].is_active
                  => Cardinality({ k \in DOMAIN result.value : result.value[k].id = i }) = 1

\* getLenders returned lender 2 alone after lender 1 was deactivated.
C19_Witness ==
    /\ call.op = "getLenders"
    /\ result.ok
    /\ Len(lenders) = 2
    /\ ~lenders[1].is_active
    /\ Len(result.value) = 1
    /\ result.value[1].id = 2

\* C17: a failed quote request is told apart from a successful one that found
\* no quotes, all the way to the caller: the state the page reaches when its
\* request failed is not the state it would have reached had the request
\* returned the empty sequence.
C17_FailureDistinctFromNoMatch ==
    [][( /\ client.request # NULL
         /\ client'.request = NULL
         /\ ~client.request[1].reply[1].ok )
       => client' # [AfterReply(client, Ok(<<>>)) EXCEPT !.request = NULL]]_vars

\* C20: each invocation computes its result from one catalog snapshot: while
\* invocations interleave with each other and with catalog writes, what an
\* invocation returns is a result of the computation on the catalog as it was
\* when the invocation's query ran, whatever was written and whatever other
\* invocations did since.
C20_SingleSnapshot ==
    [][\A c \in Callers :
          (invocations[c].pc = "queried" /\ invocations'[c].pc = "idle")
              => result' \in invocations[c].snapshot]_vars

\* An invocation returned a quote that the catalog no longer yields, while the
\* other invocation holds the rows of its own query.
C20_Witness ==
    /\ QuotesReturned
    /\ Len(Quotes) > 0
    /\ result \notin Responses(call.input)
    /\ \E c \in Callers :
          /\ invocations[c].pc = "queried"
          /\ invocations[c].input # call.input

\* ------------------------------------------------------------------------
\* Properties of the catalog writes.
\* ------------------------------------------------------------------------

\* C21: createMortgageRate succeeds if and only if a lender with the given
\* lender_id exists, active or not; then the new record is the only change.
\* When no such lender exists it fails with 'Lender not found', no rate is
\* inserted and the store is as before.
C21_RateNeedsLender ==
    [][call'.op = "createMortgageRate" =>
          /\ result'.ok <=> call'.input.lender_id \in LenderIds
          /\ result'.ok =>
                /\ rates' = Append(rates, result'.value)
                /\ result'.value.lender_id = call'.input.lender_id
                /\ UNCHANGED <<lenders, quoteRequests>>
          /\ ~result'.ok =>
                /\ result' = Failed("Lender not found")
                /\ UNCHANGED <<lenders, rates, quoteRequests>>]_vars

\* A rate was created for a lender that is not active.
C21_Witness ==
    /\ call.op = "createMortgageRate"
    /\ result.ok
    /\ ~lenders[call.input.lender_id].is_active
    /\ rates[Len(rates)] = result.value

\* The record `after` is the record `before` with the fields of `input` taken
\* over; updated_at is left aside.
OnlyInputFieldsChanged(before, after, input) ==
    /\ DOMAIN after = DOMAIN before
    /\ \A f \in DOMAIN before \ {"updated_at"} :
          after[f] = IF f \in DOMAIN input THEN input[f] ELSE before[f]

\* The table `after` is the table `before` but for the record with this id.
OtherRecordsKept(before, after, id) ==
    /\ Len(after) = Len(before)
    /\ \A j \in DOMAIN before : j # id => after[j] = before[j]

\* C22: a successful updateMortgageRate or updateLender changes only the fields
\* present in the input, a field given as null becoming null; the fields not
\* provided, the id and created_at of the record, and every other record of
\* the store keep their values.  updated_at, which no input carries, is the
\* time of the update.
C22_OnlyInputFieldsChange ==
    [][now' = now =>
          /\ (call'.op = "updateLender" /\ result'.ok) =>
                /\ OnlyInputFieldsChanged(lenders[call'.input.id], lenders'[call'.input.id],
                                          call'.input)
                /\ OtherRecordsKept(lenders, lenders', call'.input.id)
                /\ UNCHANGED <<rates, quoteRequests>>
          /\ (call'.op = "updateMortgageRate" /\ result'.ok) =>
                /\ OnlyInputFieldsChanged(rates[call'.input.id], rates'[call'.input.id],
                                          call'.input)
                /\ OtherRecordsKept(rates, rates', call'.input.id)
                /\ UNCHANGED <<lenders, quoteRequests>>]_vars

\* The closing costs of one of two rates were set to null, later than the
\* rate was created.
C22_Witness ==
    /\ call.op = "updateMortgageRate"
    /\ result.ok
    /\ "closing_costs" \in DOMAIN call.input
    /\ Len(rates) >= 2
    /\ rates[call.input.id].closing_costs = NULL
    /\ rates[call.input.id].updated_at > rates[call.input.id].created_at
    /\ \E j \in RateIds : rates[j].closing_costs # NULL

\* C23: updateMortgageRate with an id that matches no rate, updateMortgageRate
\* with a lender_id that matches no lender, and updateLender with an id that
\* matches no lender each fail with a 'not found' error and leave every
\* stored record as it was, updated_at included.
C23_NotFoundChangesNothing ==
    [][now' = now =>
          /\ (call'.op = "updateLender" /\ call'.input.id \notin LenderIds) =>
                /\ result' = Failed("Lender not found")
                /\ UNCHANGED <<lenders, rates, quoteRequests>>
          /\ (call'.op = "updateMortgageRate" /\ call'.input.id \notin RateIds) =>
                /\ result' = Failed("Mortgage rate not found")
                /\ UNCHANGED <<lenders, rates, quoteRequests>>
          /\ ( /\ call'.op = "updateMortgageRate"
               /\ call'.input.id \in RateIds
               /\ "lender_id" \in DOMAIN call'.input
               /\ call'.input.lender_id \notin LenderIds ) =>
                /\ result' = Failed("Lender not found")
                /\ UNCHANGED <<lenders, rates, quoteRequests>>]_vars

\* A rate that exists was to be moved to a lender that does not, later than
\* the rate was last written.
C23_Witness ==
    /\ call.op = "updateMortgageRate"
    /\ result = Failed("Lender not found")
    /\ call.input.id \in RateIds
    /\ rates[call.input.id].updated_at < now

\* The stored record that the update of caller c is about.
RecordOf(c) ==
    IF invocations[c].op = "updateLender"
    THEN lenders[invocations[c].input.id]
    ELSE rates[invocations[c].input.id]

\* C24: every successful updateLender or updateMortgageRate sets the record's
\* updated_at to a value strictly greater than its previous updated_at and
\* never changes created_at.
C24_UpdatedAtIncreases ==
    [][\A c \in Callers :
          (invocations[c].pc = "updating" /\ invocations'[c].pc = "done") =>
              /\ RecordOf(c)'.updated_at > RecordOf(c).updated_at
              /\ RecordOf(c)'.created_at = RecordOf(c).created_at]_vars

\* C26: whatever calls were made and however their steps interleaved, the
\* lender_id of every stored rate is the id of a stored lender.
C26_ReferentialIntegrity ==
    \A i \in RateIds : rates[i].lender_id \in LenderIds

\* An update moved a rate to the second lender, and another update failed.
C26_Witness ==
    \E c, d \in Callers :
        /\ invocations[c].pc = "done" /\ invocations[c].ok
        /\ invocations[c].op = "updateMortgageRate"
        /\ "lender_id" \in DOMAIN invocations[c].input
        /\ rates[invocations[c].input.id].lender_id = 2
        /\ invocations[d].pc = "done" /\ ~invocations[d].ok
        /\ "lender_id" \in DOMAIN invocations[d].input

\* Two finished, successful updates of the same record whose inputs share no
\* field but the id.
DisjointUpdates(c, d) ==
    /\ c # d
    /\ invocations[c].pc = "done" /\ invocations[c].ok
    /\ invocations[d].pc = "done" /\ invocations[d].ok
    /\ invocations[c].op = invocations[d].op
    /\ invocations[c].input.id = invocations[d].input.id
    /\ DOMAIN invocations[c].input \cap DOMAIN invocations[d].input = {"id"}

\* C28: two updates of the same record with disjoint sets of fields both take
\* effect however their steps interleave: after both the record holds the
\* values of both inputs.
C28_NoLostUpdate ==
    \A c, d \in Callers :
        DisjointUpdates(c, d) =>
            \A f \in DOMAIN invocations[c].input : RecordOf(c)[f] = invocations[c].input[f]

\* One caller switched a rate off and the other removed its closing costs.
C28_Witness ==
    \E c, d \in Callers :
        /\ DisjointUpdates(c, d)
        /\ invocations[c].op = "updateMortgageRate"
        /\ "is_active" \in DOMAIN invocations[c].input
        /\ "closing_costs" \in DOMAIN invocations[d].input
        /\ ~RecordOf(c).is_active
        /\ RecordOf(c).closing_costs = NULL

\* ------------------------------------------------------------------------
\* Properties of the stored quote requests.
\* ------------------------------------------------------------------------

\* The fields of a stored or returned request that come from the input.
InputOf(request) == [f \in DOMAIN request \ {"id", "created_at"} |-> request[f]]

\* C25: a stored request holds the field values it was created with and keeps
\* them; getMortgageQuoteRequests returns every stored request exactly once,
\* as stored (a null debt_to_income_ratio is null), ordered by created_at
\* descending.
C25_RequestsMostRecentFirst ==
    /\ [][ /\ \A i \in DOMAIN quoteRequests : quoteRequests'[i] = quoteRequests[i]
           /\ (call'.op = "createMortgageQuoteRequest" /\ quoteRequests' # quoteRequests) =>
                  /\ quoteRequests' = Append(quoteRequests, result'.value)
                  /\ InputOf(result'.value) = call'.input ]_vars
    /\ []( (call.op = "getMortgageQuoteRequests" /\ result.ok) =>
              /\ \A i \in DOMAIN quoteRequests :
                    Cardinality({ k \in DOMAIN result.value : result.value[k].id = i }) = 1
              /\ \A k \in DOMAIN result.value :
                    /\ result.value[k].id \in DOMAIN quoteRequests
                    /\ result.value[k] = quoteRequests[result.value[k].id]
              /\ \A j, k \in DOMAIN result.value :
                    j < k => result.value[j].created_at >= result.value[k].created_at )

\* Two requests stored at different times were listed, the later one first
\* and one of them without a debt-to-income ratio.
C25_Witness ==
    /\ call.op = "getMortgageQuoteRequests"
    /\ result.ok
    /\ Len(result.value) >= 2
    /\ result.value[1].created_at > result.value[2].created_at
    /\ \E k \in DOMAIN result.value : result.value[k].debt_to_income_ratio = NULL
    /\ \E k \in DOMAIN result.value : result.value[k].debt_to_income_ratio = <<0>>

\* ------------------------------------------------------------------------
\* Properties of the amortization helpers.
\* ------------------------------------------------------------------------

\* C27: the total interest is not negative, for every loan amount above zero,
\* every interest rate from zero up and every loan term, although it is
\* computed from the monthly payment already rounded to cents.
C27_TotalInterestNotNegative ==
    call.op = "calculateTotalInterest" => result.value >= 0

\* ------------------------------------------------------------------------
\* Properties of the client page.
\* ------------------------------------------------------------------------

\* A submitted request has settled and handleSubmit has not gone on yet.
Settled == \E k \in DOMAIN client.request : client.request[k].reply # NULL

\* C29: isLoading is true exactly while a submitted quote request is
\* outstanding; once the request settles, with quotes or with an error,
\* isLoading is eventually false again; hasSearched, once true, stays true.
C29_LoadingWhileOutstanding ==
    /\ [](client.isLoading <=> client.request # NULL)
    /\ (Settled ~> ~client.isLoading)
    /\ [][client.hasSearched => client'.hasSearched]_vars

\* The request of the page settled with an error and the page is loading.
C29_Witness ==
    /\ client.isLoading
    /\ client.hasSearched
    /\ Settled
    /\ ~client.request[1].reply[1].ok

\* C30: at most one quote request of the page is in flight at any time, and
\* the quotes shown after a request settles are those of the request
\* submitted last, never those of an older response.
C30_OneRequestInFlight ==
    /\ [](Len(client.request) <= 1)
    /\ [][Len(client'.request) < Len(client.request) =>
             LET reply == client.request[Len(client.request)].reply
             IN  /\ reply # NULL
                 /\ client'.quotes = IF reply[1].ok THEN SortByApr(reply[1].value) ELSE <<>>]_vars

\* The quotes of an earlier request are shown while the next request, which
\* has settled with other quotes, is the only one in flight.
C30_Witness ==
    /\ client.quotes # <<>>
    /\ Len(client.request) = 1
    /\ client.request[1].reply # NULL
    /\ client.request[1].reply[1].ok
    /\ SortByApr(client.request[1].reply[1].value) # client.quotes


====
